---- MODULE Spec2Model ----
(***************************************************************************)
(* LifeTraker: the user's document (AppData), the handlers of App that     *)
(* change it, the document store adapter (StorageService) and the          *)
(* debounced persistence of the document with its sync status.             *)
(***************************************************************************)
EXTENDS Integers, Sequences, FiniteSets, TLC

VARIABLES
    data,           \* App: the in-memory document (useState<AppData>)
    selectedDate,   \* App: the date the dashboard shows
    stored,         \* localStorage copy written by updateData
    nextUuid,       \* how many ids crypto.randomUUID has handed out
    lastOp,         \* the handler that ran last and its arguments
    authUser,       \* the identity supabase.auth.getUser() returns, or NoUser
    remote,         \* the table user_data: the rows stored, one per identity
    syncStatus,     \* SAVED | SAVING | ERROR, shown by Layout
    timer,          \* debounce timer: -1 idle, else ticks left until it fires
    age,            \* ticks since the last mutation (capped at the delay)
    history,        \* the document after each mutation of the session, in order
    inflight,       \* upserts sent to the store and not answered yet
    issued,         \* every upsert issued so far, in order
    newestAnswer,   \* the answer to the most recently issued upsert answered so far
    superseded,     \* revisions replaced by a newer one while their timer ran
    lastEvent,      \* the last step of the persistence manager
    metadata,       \* supabase auth: the accounts, user id -> user_metadata.name
    file,           \* the backup file last downloaded by exportDatabase
    cloud,          \* the schedule held by the endpoint of the social sync URL
    retired,        \* ids of posts that left the social queue
    smm,            \* SocialMediaManager: composer, flags, calls in flight, timers
    vision,         \* VisionBoard: its images, localStorage, IndexedDB, load step
    lastCall        \* the service call that returned last: its input and result

vars == <<data, selectedDate, stored, nextUuid, lastOp, authUser, remote,
          syncStatus, timer, age, history, inflight, issued, newestAnswer,
          superseded, lastEvent, metadata, file, cloud, retired, smm, vision,
          lastCall>>

appVars == <<data, selectedDate, stored, nextUuid, lastOp>>
storeVars == <<authUser, remote>>
syncVars == <<syncStatus, timer, age, history, inflight, issued, newestAnswer,
              superseded, lastEvent>>
envVars == <<metadata, file, cloud, retired, smm, vision, lastCall>>

(***************************************************************************)
(* Bounds of the model.                                                    *)
(***************************************************************************)
MaxUuid == 2        \* ids drawn from crypto.randomUUID in one run
MaxMutations == 3   \* mutations in one run of the persistence manager
MaxRequests == 3    \* pushes and status checks started in one run

(***************************************************************************)
(* Values.                                                                 *)
(***************************************************************************)
Today == "2024-06-01"
Dates == {"2024-06-01", "2024-06-02"}
UuidPool == <<"u1", "u2", "u3", "u4", "u5", "u6">>
NoUser == "NoUser"
NoFile == [nofile |-> TRUE]
\* null, as a value that compares with documents.
Null == [null |-> TRUE]
CurrentUserId == "uid1"

\* ids a caller may pass to a handler: ids of the template, generated ids and an
\* id that no element carries.
UnknownId == "zz"

\* The ids a caller may pass to a handler of a list: the ids the list holds (the
\* buttons rendered for its elements) and an id that no element carries.
IdInputs(list) == {list[i].id : i \in 1..Len(list)} \cup {UnknownId}

\* INITIAL_DATA_TEMPLATE of App.
INITIAL_DATA_TEMPLATE ==
    [ goals |-> [main |-> "Build a $1M Business", weekly |-> "Launch MVP by Friday"],
      user |-> [name |-> "User", profileImage |-> ""],
      nonNegotiables |-> << [id |-> "nn1", title |-> "5am Wake Up"],
                            [id |-> "nn2", title |-> "No Phone First Hour"] >>,
      milestones |-> << [id |-> "m1", title |-> "Launch App", date |-> Today,
                         completed |-> TRUE],
                        [id |-> "m2", title |-> "Reach 100 Users", date |-> "2024-07-01",
                         completed |-> FALSE] >>,
      socialQueue |-> << >>,
      nonNegotiableLogs |-> << >>,
      todos |-> << [id |-> "1", title |-> "Start your journey", priority |-> "TOP",
                    completed |-> FALSE, date |-> Today] >>,
      habits |-> << [id |-> "h1", name |-> "Drink Water", logs |-> << >>] >>,
      journal |-> << >>,
      expenses |-> << >> ]

(***************************************************************************)
(* JavaScript helpers.                                                     *)
(***************************************************************************)
\* A filter whose predicate keeps the matching element instead of dropping it.
FilterOutId_KeepsMatch(list, id) == SelectSeq(list, LAMBDA e : e.id = id)

\* A removal by splice(findIndex(...), 1): an id that is not found gives index -1,
\* and splice(-1, 1) removes the last element.
FilterOutId_Splice(list, id) ==
    IF \E i \in 1..Len(list) : list[i].id = id
    THEN SelectSeq(list, LAMBDA e : e.id # id)
    ELSE SubSeq(list, 1, Len(list) - 1)

\* Array.prototype.filter with the predicate "element.id !== id".
FilterOutId(list, id) == SelectSeq(list, LAMBDA e : e.id # id)

\* Array.prototype.includes on an array of ids.
Includes(list, id) == \E i \in 1..Len(list) : list[i] = id

\* { ...obj, [key]: value } on an object used as a map.
Put(obj, key, value) ==
    [k \in (DOMAIN obj) \cup {key} |-> IF k = key THEN value ELSE obj[k]]

\* delete obj[key]
Remove(obj, key) == [k \in (DOMAIN obj) \ {key} |-> obj[k]]

(***************************************************************************)
(* The handlers of App, as the document each one passes to updateData.     *)
(***************************************************************************)
\* A toggle that marks the todo completed instead of flipping the flag.
newTodos_SetsTrue(d, id) ==
    [i \in 1..Len(d.todos) |->
        IF d.todos[i].id = id
        THEN [d.todos[i] EXCEPT !.completed = TRUE]
        ELSE d.todos[i]]

newTodos(d, id) ==
    [i \in 1..Len(d.todos) |->
        IF d.todos[i].id = id
        THEN [d.todos[i] EXCEPT !.completed = ~d.todos[i].completed]
        ELSE d.todos[i]]

toggleTodoData(d, id) == [d EXCEPT !.todos = newTodos(d, id)]

newHabits(d, sel, id) ==
    [i \in 1..Len(d.habits) |->
        IF d.habits[i].id = id
        THEN LET h == d.habits[i]
                 isDone == sel \in DOMAIN h.logs /\ h.logs[sel]
             IN [h EXCEPT !.logs = IF isDone THEN Remove(h.logs, sel)
                                              ELSE Put(h.logs, sel, TRUE)]
        ELSE d.habits[i]]

toggleHabitData(d, sel, id) == [d EXCEPT !.habits = newHabits(d, sel, id)]

\* data.nonNegotiableLogs[selectedDate] || []
currentLogs(d, sel) ==
    IF sel \in DOMAIN d.nonNegotiableLogs THEN d.nonNegotiableLogs[sel] ELSE << >>

\* A toggle that appends without looking for the id first.
newLogs_AlwaysAppends(d, sel, id) == Append(currentLogs(d, sel), id)

newLogs(d, sel, id) ==
    IF Includes(currentLogs(d, sel), id)
    THEN SelectSeq(currentLogs(d, sel), LAMBDA logId : logId # id)
    ELSE Append(currentLogs(d, sel), id)

toggleNonNegotiableData(d, sel, id) ==
    [d EXCEPT !.nonNegotiableLogs = Put(d.nonNegotiableLogs, sel, newLogs(d, sel, id))]

deleteExpenseData(d, id) == [d EXCEPT !.expenses = FilterOutId(d.expenses, id)]

newMilestones(d, id) ==
    [i \in 1..Len(d.milestones) |->
        IF d.milestones[i].id = id
        THEN [d.milestones[i] EXCEPT !.completed = ~d.milestones[i].completed]
        ELSE d.milestones[i]]

toggleMilestoneData(d, id) == [d EXCEPT !.milestones = newMilestones(d, id)]

deleteMilestoneData(d, id) == [d EXCEPT !.milestones = FilterOutId(d.milestones, id)]

\* SocialMediaManager.removeFromQueue, through App.updateSocialQueue.
\* queue={data.socialQueue || []}: the queue SocialMediaManager is given.
queueOf(d) == IF "socialQueue" \in DOMAIN d THEN d.socialQueue ELSE << >>

\* App.updateSocialQueue: { ...data, socialQueue: newQueue }.
updateSocialQueueData(d, newQueue) == Put(d, "socialQueue", newQueue)

removeFromQueueData(d, id) == updateSocialQueueData(d, FilterOutId(queueOf(d), id))

(***************************************************************************)
(* ActionModal.handleSubmit: the item built from the form for each type.   *)
(***************************************************************************)
NoValue == "undefined"
TitleInputs == {"Ship spec"}
PriorityInputs == {"TOP", NoValue}
ItemTypes == {"TODO", "HABIT", "EXPENSE", "NON_NEGOTIABLE", "GOAL", "MILESTONE"}

\* formData.x || fallback
OrElse(v, fallback) == IF v = NoValue THEN fallback ELSE v

\* ActionModal.handleSubmit for a TODO: the item built from the form; the date
\* is the one of the form or, when the field was left alone, today.
formTodo(id, title, priority, date) ==
    [id |-> id, title |-> title, priority |-> OrElse(priority, "MEDIUM"),
     completed |-> FALSE, date |-> OrElse(date, Today)]

\* App.handleAddItem: item.date = selectedDate.
datedTodo(item, sel) == [item EXCEPT !.date = sel]

\* The todo handleSubmit builds and handleAddItem dates with the selected date.
submitTodo(id, title, priority, sel) ==
    datedTodo(formTodo(id, title, priority, NoValue), sel)

submitExpense(id, description, sel) ==
    [id |-> id, description |-> description, amount |-> 5, category |-> "Food",
     date |-> sel]

submitMilestone(id, title) ==
    [id |-> id, title |-> title, date |-> "2024-07-01", completed |-> FALSE]

\* App.handleAddItem: the document passed to updateData.
handleAddItemData(d, sel, type, id, title, priority) ==
    CASE type = "GOAL" ->
            [d EXCEPT !.goals = [main |-> title, weekly |-> title]]
      [] type = "TODO" ->
            [d EXCEPT !.todos = <<submitTodo(id, title, priority, sel)>> \o d.todos]
      [] type = "HABIT" ->
            [d EXCEPT !.habits = Append(d.habits, [id |-> id, name |-> title, logs |-> << >>])]
      [] type = "NON_NEGOTIABLE" ->
            [d EXCEPT !.nonNegotiables = Append(d.nonNegotiables, [id |-> id, title |-> title])]
      [] type = "EXPENSE" ->
            [d EXCEPT !.expenses = <<submitExpense(id, title, sel)>> \o d.expenses]
      [] type = "MILESTONE" ->
            [d EXCEPT !.milestones = Append(d.milestones, submitMilestone(id, title))]

\* SocialMediaManager.addToQueue without an attached file: the new post.
newPost(id, content, scheduledTime) ==
    [id |-> id, content |-> content, image |-> "null", platforms |-> <<"telegram">>,
     scheduledTime |-> scheduledTime, status |-> "QUEUED"]

addToQueueData(d, id, content, scheduledTime) ==
    updateSocialQueueData(d, Append(queueOf(d), newPost(id, content, scheduledTime)))

(***************************************************************************)
(* App.updateData: the state and, for a logged-in user, the localStorage   *)
(* copy.                                                                   *)
(***************************************************************************)
updateData(newData) ==
    /\ data' = newData
    /\ stored' = newData

Did(op, id) == lastOp' = [op |-> op, id |-> id]

(***************************************************************************)
(* The actions of the dashboard and of the social media manager.           *)
(***************************************************************************)
setSelectedDate ==
    \E d \in Dates :
        /\ d # selectedDate
        /\ selectedDate' = d
        /\ Did("setSelectedDate", d)
        /\ UNCHANGED <<data, stored, nextUuid>>

handleAddItem(types) ==
    \E type \in types, title \in TitleInputs, priority \in PriorityInputs :
        /\ nextUuid < MaxUuid
        /\ nextUuid' = nextUuid + 1
        /\ updateData(handleAddItemData(data, selectedDate, type,
                                        UuidPool[nextUuid + 1], title, priority))
        /\ Did("handleAddItem", type)
        /\ UNCHANGED selectedDate

addToQueue ==
    \E content \in {"post"}, scheduledTime \in {"2024-06-03T09:00"} :
        /\ nextUuid < MaxUuid
        /\ nextUuid' = nextUuid + 1
        /\ updateData(addToQueueData(data, UuidPool[nextUuid + 1], content, scheduledTime))
        /\ Did("addToQueue", UuidPool[nextUuid + 1])
        /\ UNCHANGED selectedDate

toggleTodo ==
    \E id \in IdInputs(data.todos) :
        /\ updateData(toggleTodoData(data, id))
        /\ Did("toggleTodo", id)
        /\ UNCHANGED <<selectedDate, nextUuid>>

toggleHabit ==
    \E id \in IdInputs(data.habits) :
        /\ updateData(toggleHabitData(data, selectedDate, id))
        /\ Did("toggleHabit", id)
        /\ UNCHANGED <<selectedDate, nextUuid>>

toggleNonNegotiable ==
    \E id \in IdInputs(data.nonNegotiables) :
        /\ updateData(toggleNonNegotiableData(data, selectedDate, id))
        /\ Did("toggleNonNegotiable", id)
        /\ UNCHANGED <<selectedDate, nextUuid>>

deleteExpense ==
    \E id \in IdInputs(data.expenses) :
        /\ updateData(deleteExpenseData(data, id))
        /\ Did("deleteExpense", id)
        /\ UNCHANGED <<selectedDate, nextUuid>>

toggleMilestone ==
    \E id \in IdInputs(data.milestones) :
        /\ updateData(toggleMilestoneData(data, id))
        /\ Did("toggleMilestone", id)
        /\ UNCHANGED <<selectedDate, nextUuid>>

\* window.confirm decides whether updateData is called at all.
deleteMilestone ==
    \E id \in IdInputs(data.milestones), confirmed \in BOOLEAN :
        /\ IF confirmed
           THEN updateData(deleteMilestoneData(data, id))
           ELSE UNCHANGED <<data, stored>>
        /\ Did(IF confirmed THEN "deleteMilestone" ELSE "deleteMilestoneCancelled", id)
        /\ UNCHANGED <<selectedDate, nextUuid>>

removeFromQueue ==
    \E id \in IdInputs(queueOf(data)), confirmed \in BOOLEAN :
        /\ IF confirmed
           THEN updateData(removeFromQueueData(data, id))
           ELSE UNCHANGED <<data, stored>>
        /\ Did(IF confirmed THEN "removeFromQueue" ELSE "removeFromQueueCancelled", id)
        /\ UNCHANGED <<selectedDate, nextUuid>>

(***************************************************************************)
(* The session of a logged-in user on the dashboard.                       *)
(***************************************************************************)
AppInit ==
    /\ data = INITIAL_DATA_TEMPLATE
    /\ selectedDate = Today
    /\ stored = INITIAL_DATA_TEMPLATE
    /\ nextUuid = 0
    /\ lastOp = [op |-> "none", id |-> "none"]

StoreInit ==
    /\ authUser = CurrentUserId
    /\ remote = {}

\* The persistence manager after load: nothing to save, status SAVED.
SyncIdle ==
    /\ syncStatus = "SAVED"
    /\ timer = -1
    /\ age = 0
    /\ history = << >>
    /\ inflight = {}
    /\ issued = << >>
    /\ newestAnswer = [seq |-> 0, error |-> FALSE]
    /\ superseded = {}
    /\ lastEvent = [type |-> "load", seq |-> 0, error |-> FALSE]

\* VisionBoard before its load effect ran, for a user without images.
VisionIdle == [images |-> << >>, ls |-> Null, idb |-> Null, pc |-> "mount"]

\* SocialMediaManager after mount: an empty composer, no upload, sync status
\* IDLE, no request in flight and no reset pending.
SmmIdle ==
    [postContent |-> "", fileToUpload |-> NoFile, selectedPlatforms |-> << >>,
     scheduledDate |-> "", isUploading |-> FALSE, syncStatus |-> "IDLE",
     calls |-> {}, requests |-> 0, timers |-> 0]

\* One account, no backup file, an empty schedule at the endpoint, no call yet.
EnvIdle ==
    /\ metadata = [u \in {CurrentUserId} |-> "Ava"]
    /\ file = NoFile
    /\ cloud = << >>
    /\ retired = {}
    /\ smm = SmmIdle
    /\ vision = VisionIdle
    /\ lastCall = [fn |-> "none"]

Init == AppInit /\ StoreInit /\ SyncIdle /\ EnvIdle

Next ==
    \/ handleAddItem({"TODO", "EXPENSE"}) /\ UNCHANGED <<storeVars, syncVars, envVars>>
    \/ addToQueue /\ UNCHANGED <<storeVars, syncVars, envVars>>
    \/ toggleTodo /\ UNCHANGED <<storeVars, syncVars, envVars>>
    \/ toggleHabit /\ UNCHANGED <<storeVars, syncVars, envVars>>
    \/ deleteExpense /\ UNCHANGED <<storeVars, syncVars, envVars>>
    \/ toggleMilestone /\ UNCHANGED <<storeVars, syncVars, envVars>>
    \/ deleteMilestone /\ UNCHANGED <<storeVars, syncVars, envVars>>
    \/ removeFromQueue /\ UNCHANGED <<storeVars, syncVars, envVars>>

Spec == Init /\ [][Next]_vars

(***************************************************************************)
(* The non-negotiable checklist of the dashboard, over the dates.          *)
(***************************************************************************)
NNNext ==
    \/ setSelectedDate /\ UNCHANGED <<storeVars, syncVars, envVars>>
    \/ toggleNonNegotiable /\ UNCHANGED <<storeVars, syncVars, envVars>>

NNSpec == Init /\ [][NNNext]_vars

(***************************************************************************)
(* StorageService.saveUserData: the whole-document upsert.                 *)
(***************************************************************************)
\* if (!user) return;  -- no identity, no upsert.
saveUserDataSends(user) == user # NoUser

\* The row the upsert writes: { id: user.id, content: data, updated_at }.
upsertRow(user, d) == [id |-> user, content |-> d]

\* The table after the upsert: the row replaces the one with the same id.
upsert(table, row) == {r \in table : r.id # row.id} \cup {row}

\* A save that swallows the store's error instead of throwing it.
saveUserDataOutcome_Swallows(error) == "resolved"

\* if (error) throw error;  -- the promise rejects, otherwise it resolves.
saveUserDataOutcome(error) == IF error THEN "rejected" ELSE "resolved"

(***************************************************************************)
(* The persistence of the document: schedulePersist and the sync status.   *)
(* One tick of the model is 500 ms; the debounce delay is 1500 ms.         *)
(***************************************************************************)
DebounceTicks == 3

rev == Len(history)

Event(type, seq, error) == lastEvent' = [type |-> type, seq |-> seq, error |-> error]

\* A timer that is left running when a mutation arrives while it is armed.
armTimer_KeepsRunning(current) == IF current >= 0 THEN current ELSE DebounceTicks

\* Arming the timer cancels the one armed before: the delay starts again.
armTimer(current) == DebounceTicks

\* An answer that is dropped when a more recently issued upsert was answered before.
statusAfterAnswer_IgnoresStale(current, seq, newest, outcome) ==
    IF seq < newest THEN current
    ELSE IF outcome = "resolved" THEN "SAVED" ELSE "ERROR"

\* The status after the save of upsert seq settled: SAVED when the promise
\* resolved, ERROR when it rejected, whatever was answered before.
statusAfterAnswer(current, seq, newest, outcome) ==
    IF outcome = "resolved" THEN "SAVED" ELSE "ERROR"

\* A mutation of the document: the new document is kept, the status is SAVING
\* and the debounce timer is armed.
schedulePersist(newData) ==
    /\ data' = newData
    /\ history' = Append(history, newData)
    /\ syncStatus' = "SAVING"
    /\ timer' = armTimer(timer)
    /\ age' = 0
    /\ superseded' = IF timer >= 0 THEN superseded \cup {rev} ELSE superseded
    /\ Event("mutation", 0, FALSE)
    /\ UNCHANGED <<inflight, issued, newestAnswer>>

applyMutation ==
    /\ rev < MaxMutations
    /\ \/ schedulePersist(toggleTodoData(data, "1"))
       \/ schedulePersist(toggleMilestoneData(data, "m2"))
    /\ UNCHANGED <<selectedDate, stored, nextUuid, lastOp, storeVars>>

\* 500 ms pass while the timer is armed.
tick ==
    /\ timer > 0
    /\ timer' = timer - 1
    /\ age' = IF age < DebounceTicks THEN age + 1 ELSE age
    /\ Event("tick", 0, FALSE)
    /\ UNCHANGED <<appVars, storeVars, syncStatus, history, inflight, issued,
                   newestAnswer, superseded>>

\* The timer fires: saveUserData is called with the document of that moment.
timerFires ==
    /\ timer = 0
    /\ timer' = -1
    /\ IF saveUserDataSends(authUser)
       THEN /\ inflight' = inflight \cup
                    {[seq |-> Len(issued) + 1, rev |-> rev, content |-> data]}
            /\ issued' = Append(issued, [rev |-> rev, age |-> age, content |-> data])
            /\ UNCHANGED syncStatus
       ELSE /\ syncStatus' = "SAVED"
            /\ UNCHANGED <<inflight, issued>>
    /\ Event("fire", Len(issued) + 1, FALSE)
    /\ UNCHANGED <<appVars, storeVars, age, history, newestAnswer, superseded>>

\* The store answers one of the upserts in flight, in any order, with or without
\* an error; a write without error replaces the row.
upsertAnswered ==
    \E u \in inflight, error \in BOOLEAN :
        /\ inflight' = inflight \ {u}
        /\ remote' = IF error THEN remote ELSE upsert(remote, upsertRow(authUser, u.content))
        /\ syncStatus' = statusAfterAnswer(syncStatus, u.seq, newestAnswer.seq,
                                           saveUserDataOutcome(error))
        /\ newestAnswer' = IF u.seq > newestAnswer.seq
                           THEN [seq |-> u.seq, error |-> error]
                           ELSE newestAnswer
        /\ Event("answer", u.seq, error)
        /\ UNCHANGED <<appVars, authUser, timer, age, history, issued, superseded>>

SyncNext ==
    \/ applyMutation /\ UNCHANGED envVars
    \/ tick /\ UNCHANGED envVars
    \/ timerFires /\ UNCHANGED envVars
    \/ upsertAnswered /\ UNCHANGED envVars

SyncSpec == Init /\ [][SyncNext]_vars

(***************************************************************************)
(* StorageService.getUserData and the load of the document at session      *)
(* start.                                                                  *)
(***************************************************************************)
\* DB_TEMPLATE.appDataTemplate.
appDataTemplate ==
    [ goals |-> [main |-> "Build my Empire", weekly |-> "Complete the MVP"],
      user |-> [name |-> "User", profileImage |-> ""],
      nonNegotiables |-> << [id |-> "nn1", title |-> "Deep Work (4h)"],
                            [id |-> "nn2", title |-> "No Sugar"] >>,
      milestones |-> << [id |-> "m1", title |-> "System Setup", date |-> "2024-01-01",
                         completed |-> TRUE] >>,
      socialQueue |-> << >>,
      nonNegotiableLogs |-> << >>,
      todos |-> << >>,
      habits |-> << [id |-> "h1", name |-> "Read 10 pages", logs |-> << >>] >>,
      journal |-> << >>,
      expenses |-> << >> ]

Fields == DOMAIN appDataTemplate


\* user.user_metadata.name of the identities.
MetadataName(user) == IF user \in DOMAIN metadata THEN metadata[user] ELSE NoValue

\* supabase .from('user_data').select('content').eq('id', id).single(): the row,
\* the error PGRST116 when there is none, or another error when the read fails.
selectSingle(table, id, fault) ==
    IF fault THEN [data |-> Null, error |-> "500"]
    ELSE IF \E r \in table : r.id = id
         THEN [data |-> CHOOSE r \in table : r.id = id, error |-> "none"]
         ELSE [data |-> Null, error |-> "PGRST116"]

\* The template with the identity's name: what a new user gets.
newUserData(user) ==
    [appDataTemplate EXCEPT !.user = [name |-> OrElse(MetadataName(user), "User")]]

\* A load that hands out the template whatever the row holds.
getUserData_IgnoresContent(user, res) ==
    IF user = NoUser THEN Null
    ELSE IF res.error # "none" /\ res.error # "PGRST116" THEN Null
    ELSE newUserData(user)

\* A load that takes the missing row of a new user for a failure.
getUserData_MissingRowIsError(user, res) ==
    IF user = NoUser THEN Null
    ELSE IF res.error # "none" THEN Null
    ELSE IF res.data # Null /\ res.data.content # Null THEN res.data.content
    ELSE newUserData(user)

\* A load that answers a failed read with the template.
getUserData_TemplateOnError(user, res) ==
    IF user = NoUser THEN Null
    ELSE IF res.data # Null /\ res.data.content # Null THEN res.data.content
    ELSE newUserData(user)

\* StorageService.getUserData, given the identity and the answer of the store.
getUserData(user, res) ==
    IF user = NoUser THEN Null
    ELSE IF res.error # "none" /\ res.error # "PGRST116" THEN Null
    ELSE IF res.data # Null /\ res.data.content # Null THEN res.data.content
    ELSE newUserData(user)

\* Migration-on-read: every top-level field of the template that the loaded
\* document lacks gets the template's default; the fields it has are kept.
fillMissingDefaults(doc) ==
    [f \in Fields \cup DOMAIN doc |-> IF f \in DOMAIN doc THEN doc[f] ELSE appDataTemplate[f]]

\* A document as an older or the current release stored it: every field it has
\* holds a value that is not the template's.
OlderDocument ==
    [ goals |-> [main |-> "Run a marathon", weekly |-> "Run 20 km"],
      user |-> [name |-> "Ava", profileImage |-> "ava.png"],
      nonNegotiables |-> << [id |-> "nn9", title |-> "Read"] >>,
      milestones |-> << >>,
      socialQueue |-> << [id |-> "p1", content |-> "post", image |-> "null",
                          platforms |-> <<"telegram">>,
                          scheduledTime |-> "2024-06-03T09:00", status |-> "QUEUED"] >>,
      nonNegotiableLogs |-> [d \in {Today} |-> <<"nn9">>],
      todos |-> << [id |-> "t1", title |-> "Ship spec", priority |-> "TOP",
                    completed |-> TRUE, date |-> Today] >>,
      habits |-> << >>,
      journal |-> << [id |-> "j1", date |-> Today, content |-> "A good day"] >>,
      expenses |-> << [id |-> "e1", description |-> "Lunch", amount |-> 5,
                       category |-> "Food", date |-> Today] >> ]

Restrict(doc, fields) == [f \in fields |-> doc[f]]

\* The rows the store may hold for the identity at session start: none, a row
\* without content, or a document with any subset of the fields.
StoredTables ==
    {{}} \cup {{[id |-> CurrentUserId, content |-> Null]}}
         \cup {{[id |-> CurrentUserId, content |-> Restrict(OlderDocument, fs)]} :
                  fs \in SUBSET Fields}

\* load(identity): the document of getUserData with its missing fields filled;
\* without a document nothing is loaded.
load ==
    \E fault \in BOOLEAN :
        LET doc == getUserData(authUser, selectSingle(remote, authUser, fault)) IN
        /\ lastOp.op = "none"
        /\ data' = IF doc = Null THEN Null ELSE fillMissingDefaults(doc)
        /\ Did(IF doc = Null THEN "loadFailed"
               ELSE IF fault THEN "loadFault" ELSE "load", authUser)
        /\ syncStatus' = "SAVED"
        /\ UNCHANGED <<selectedDate, stored, nextUuid, storeVars, timer, age, history,
                       inflight, issued, newestAnswer, superseded, lastEvent, envVars>>

LoadInit ==
    /\ data = Null
    /\ selectedDate = Today
    /\ stored = Null
    /\ nextUuid = 0
    /\ lastOp = [op |-> "none", id |-> "none"]
    /\ authUser = CurrentUserId
    /\ remote \in StoredTables
    /\ SyncIdle
    /\ EnvIdle

LoadSpec == LoadInit /\ [][load]_vars

(***************************************************************************)
(* StorageService.signUp, login and logout, and Auth in front of them.     *)
(***************************************************************************)
Emails == {"ava@x.io", "bo@x.io"}

\* The names Auth passes on: a sign-up with an empty name is refused there.
NameInputs == {"Ava", "Bo", "Cy"}

\* The user id supabase auth gives the account of an email address.
UserIdOf(email) == IF email = "ava@x.io" THEN "uid1" ELSE "uid2"

\* signUp: initialData, the template with the name given.
initialData(name) == [appDataTemplate EXCEPT !.user = [name |-> name]]

\* signUp(email, pass, name): the account is created with the name in its
\* metadata; with a session the initial document is saved, and a failed save
\* makes signUp throw after the account exists.  Without a session (the email
\* is to be confirmed first) saveUserData finds no user and writes nothing.
signUp ==
    \E email \in Emails, name \in NameInputs, session \in BOOLEAN, error \in BOOLEAN :
        LET id == UserIdOf(email) IN
        /\ authUser = NoUser
        /\ IF id \in DOMAIN metadata
           THEN /\ lastCall' = [fn |-> "signUp", arg |-> name, result |-> "rejected"]
                /\ UNCHANGED <<metadata, authUser, remote>>
           ELSE /\ metadata' = [u \in DOMAIN metadata \cup {id} |->
                                    IF u = id THEN name ELSE metadata[u]]
                /\ authUser' = IF session THEN id ELSE NoUser
                /\ remote' = IF saveUserDataSends(authUser') /\ ~error
                             THEN upsert(remote, upsertRow(authUser', initialData(name)))
                             ELSE remote
                /\ lastCall' = [fn |-> "signUp", arg |-> name,
                                result |-> IF saveUserDataSends(authUser')
                                           THEN saveUserDataOutcome(error)
                                           ELSE "resolved"]
        /\ UNCHANGED <<appVars, syncVars, file, cloud, retired, smm, vision>>

login ==
    \E email \in Emails :
        /\ authUser = NoUser
        /\ UserIdOf(email) \in DOMAIN metadata
        /\ authUser' = UserIdOf(email)
        /\ lastCall' = [fn |-> "login", arg |-> email, result |-> "resolved"]
        /\ UNCHANGED <<appVars, syncVars, remote, metadata, file, cloud, retired, smm, vision>>

logout ==
    /\ authUser # NoUser
    /\ authUser' = NoUser
    /\ lastCall' = [fn |-> "logout", arg |-> authUser, result |-> "resolved"]
    /\ UNCHANGED <<appVars, syncVars, remote, metadata, file, cloud, retired, smm, vision>>

\* A call of getUserData: the store answers, or fails to.
getUserDataCall ==
    \E fault \in BOOLEAN :
        /\ lastCall' = [fn |-> "getUserData", arg |-> authUser, fault |-> fault,
                        result |-> getUserData(authUser,
                                               selectSingle(remote, authUser, fault))]
        /\ UNCHANGED <<appVars, syncVars, storeVars, metadata, file, cloud, retired, smm, vision>>

\* Nobody is signed in and no account exists.
SignUpInit ==
    /\ AppInit
    /\ SyncIdle
    /\ authUser = NoUser
    /\ remote = {}
    /\ metadata = << >>
    /\ file = NoFile
    /\ cloud = << >>
    /\ retired = {}
    /\ smm = SmmIdle
    /\ vision = VisionIdle
    /\ lastCall = [fn |-> "none"]

SignUpNext ==
    \/ signUp
    \/ login
    \/ logout
    \/ getUserDataCall

SignUpSpec == SignUpInit /\ [][SignUpNext]_vars

(***************************************************************************)
(* getUserData over every identity, table and answer of the store.         *)
(***************************************************************************)
ReadInit ==
    /\ AppInit
    /\ SyncIdle
    /\ EnvIdle
    /\ authUser \in {CurrentUserId, NoUser}
    /\ remote \in StoredTables

ReadSpec == ReadInit /\ [][getUserDataCall]_vars

(***************************************************************************)
(* StorageService.exportDatabase and importDatabase: the backup file.      *)
(***************************************************************************)
\* JSON.stringify leaves out the properties whose value is undefined.
DropUndefined(obj) ==
    [f \in {g \in DOMAIN obj : ~(g = "priority" /\ obj[g] = NoValue)} |-> obj[f]]

\* A serialisation that loses the todos of the document.
stringify_DropsTodos(doc) ==
    [kind |-> "json", value |-> [f \in DOMAIN doc \ {"todos"} |-> doc[f]]]

\* JSON.stringify(data, null, 2): the text of the file.
stringify(doc) ==
    [kind |-> "json",
     value |-> IF "todos" \in DOMAIN doc
               THEN [doc EXCEPT !.todos = [i \in 1..Len(doc.todos) |->
                                              DropUndefined(doc.todos[i])]]
               ELSE doc]

\* JSON.parse: the value of a JSON text, a SyntaxError for any other text.
parse(text) ==
    IF text.kind = "json" THEN [threw |-> FALSE, value |-> text.value]
    ELSE [threw |-> TRUE, value |-> Null]

\* A validation that looks at user only.
validStructure_OnlyUser(json) ==
    json # Null /\ "user" \in DOMAIN json /\ json.user # Null

\* if (!json.user || !json.goals) throw new Error("Invalid structure"); a json
\* of null throws a TypeError at the same place.
validStructure(json) ==
    /\ json # Null
    /\ "user" \in DOMAIN json /\ json.user # Null
    /\ "goals" \in DOMAIN json /\ json.goals # Null

\* A document of a backup made elsewhere.
ImportDocument ==
    [ user |-> [name |-> "Zed"],
      goals |-> [main |-> "Sail", weekly |-> "Buy a boat"],
      todos |-> << [id |-> "t7", title |-> "Varnish", priority |-> "LOW",
                    completed |-> FALSE, date |-> Today] >> ]

\* The files a user may select: a text that is no JSON, the JSON null, a
\* document with user: null, and documents with any of user, goals and todos.
FileInputs ==
    {[kind |-> "garbage"], [kind |-> "json", value |-> Null],
     [kind |-> "json", value |-> [ImportDocument EXCEPT !.user = Null]]}
    \cup {[kind |-> "json", value |-> Restrict(ImportDocument, fs)] :
             fs \in SUBSET {"user", "goals", "todos"}}

\* exportDatabase: the document of getUserData is downloaded as a file; without
\* a document nothing is downloaded.
exportDatabase ==
    \E fault \in BOOLEAN :
        LET doc == getUserData(authUser, selectSingle(remote, authUser, fault)) IN
        /\ file' = IF doc = Null THEN file ELSE stringify(doc)
        /\ lastCall' = [fn |-> "exportDatabase", arg |-> remote,
                        result |-> IF doc = Null THEN "nothing" ELSE "downloaded"]
        /\ UNCHANGED <<appVars, syncVars, storeVars, metadata, cloud, retired, smm, vision>>

\* The outcome of importDatabase for a file: whether the promise resolves and
\* the table afterwards.
importOutcome(f, readError, error) ==
    IF readError THEN [result |-> "rejected", table |-> remote]
    ELSE IF parse(f).threw THEN [result |-> "rejected", table |-> remote]
    ELSE IF ~validStructure(parse(f).value) THEN [result |-> "rejected", table |-> remote]
    ELSE IF ~saveUserDataSends(authUser) THEN [result |-> "resolved", table |-> remote]
    ELSE IF saveUserDataOutcome(error) = "rejected"
         THEN [result |-> "rejected", table |-> remote]
    ELSE [result |-> "resolved",
          table |-> upsert(remote, upsertRow(authUser, parse(f).value))]

\* importDatabase(file) for a selected file or the one exported last.
importDatabase ==
    \E f \in FileInputs \cup ({file} \ {NoFile}), readError \in BOOLEAN, error \in BOOLEAN :
        LET out == importOutcome(f, readError, error) IN
        /\ remote' = out.table
        /\ lastCall' = [fn |-> "importDatabase", arg |-> f, readError |-> readError,
                        result |-> out.result, original |-> remote,
                        roundTrip |-> /\ lastCall.fn = "exportDatabase"
                                      /\ lastCall.result = "downloaded"
                                      /\ f = file]
        /\ UNCHANGED <<appVars, syncVars, authUser, metadata, file, cloud, retired, smm, vision>>

\* The rows the store may hold when a backup is made: none, a row without
\* content, or a document, complete or without some of user, goals, socialQueue.
BackupTables ==
    {{}} \cup {{[id |-> CurrentUserId, content |-> Null]}}
         \cup {{[id |-> CurrentUserId, content |-> Restrict(OlderDocument, Fields \ missing)]} :
                  missing \in SUBSET {"user", "goals", "socialQueue"}}

\* A session, or none, over such a table.
BackupInit ==
    /\ AppInit
    /\ SyncIdle
    /\ authUser \in {CurrentUserId, NoUser}
    /\ remote \in BackupTables
    /\ metadata = [u \in {CurrentUserId} |-> "Ava"]
    /\ file = NoFile
    /\ cloud = << >>
    /\ retired = {}
    /\ smm = SmmIdle
    /\ vision = VisionIdle
    /\ lastCall = [fn |-> "none"]

BackupNext ==
    \/ exportDatabase
    \/ importDatabase

BackupSpec == BackupInit /\ [][BackupNext]_vars

(***************************************************************************)
(* geminiService.chatWithAI and the chat handlers that fold its tasks into *)
(* the todos.                                                              *)
(***************************************************************************)
ConfigurationMessage == "Configuration Error: The API Key is missing or invalid."
ConnectionMessage == "Connection Error: I couldn't reach the Google servers."
RateLimitMessage == "I'm thinking too hard (Rate Limit Exceeded)."
UnexpectedMessage == "I encountered an unexpected error connecting to my brain."
DefaultReply == "I processed your request."

\* An error handler with no message for the errors of no category.
handleError_NoFallback(msg) ==
    IF msg \cap {"API key", "400", "401", "403"} # {} THEN ConfigurationMessage
    ELSE IF msg \cap {"FetchError", "Failed to fetch", "Network"} # {} THEN ConnectionMessage
    ELSE IF "429" \in msg THEN RateLimitMessage
    ELSE ""

\* handleError(error): msg is error.toString(), given by the substrings it
\* includes of those the handler looks for.
handleError(msg) ==
    IF msg \cap {"API key", "400", "401", "403"} # {} THEN ConfigurationMessage
    ELSE IF msg \cap {"FetchError", "Failed to fetch", "Network"} # {} THEN ConnectionMessage
    ELSE IF "429" \in msg THEN RateLimitMessage
    ELSE UnexpectedMessage

\* The tasks a reply may carry: a priority of the enum, one outside it, none.
TaskInputs ==
    {[title |-> "Clean pc", priority |-> p] : p \in {"TOP", "URGENT", NoValue}}

ExtractedTasksInputs ==
    {<< >>} \cup {<<t>> : t \in TaskInputs}
            \cup {<<[title |-> "Learn sql", priority |-> "LOW"], t>> : t \in TaskInputs}

\* The values the response text may parse to: null, or an object with or
\* without reply and extractedTasks.
ReplyValues ==
    {Null}
    \cup {[reply |-> r, extractedTasks |-> ts] :
             r \in {"", "Done."}, ts \in ExtractedTasksInputs}
    \cup {[reply |-> r] : r \in {"", "Done."}}
    \cup {[extractedTasks |-> ts] : ts \in ExtractedTasksInputs}

\* What generateContent does: it throws, or it answers with a text that is
\* empty, no JSON, or JSON.
ProviderOutcomes ==
    {[threw |-> TRUE, error |-> e] :
        e \in {{"API key"}, {"403"}, {"Failed to fetch"}, {"429"}, {"429", "Network"}, {}}}
    \cup {[threw |-> FALSE, text |-> [kind |-> k]] : k \in {"empty", "garbage"}}
    \cup {[threw |-> FALSE, text |-> [kind |-> "json", value |-> v]] : v \in ReplyValues}

\* chatWithAI(message, context): the result, whatever the provider does.
chatWithAI(context, provider) ==
    IF ~({"todos", "user"} \subseteq DOMAIN context)
    THEN [text |-> handleError({"TypeError"}), tasks |-> << >>]
    ELSE IF provider.threw
    THEN [text |-> handleError(provider.error), tasks |-> << >>]
    ELSE LET text == IF provider.text.kind = "empty"
                     THEN [kind |-> "json", value |-> [empty |-> TRUE]]
                     ELSE provider.text
             jsonResponse == parse(text)
         IN
         IF jsonResponse.threw
         THEN [text |-> handleError({"SyntaxError"}), tasks |-> << >>]
         ELSE IF jsonResponse.value = Null
         THEN [text |-> handleError({"TypeError"}), tasks |-> << >>]
         ELSE [text |-> IF "reply" \in DOMAIN jsonResponse.value
                        THEN OrElse(IF jsonResponse.value.reply = "" THEN NoValue
                                    ELSE jsonResponse.value.reply, DefaultReply)
                        ELSE DefaultReply,
               tasks |-> IF "extractedTasks" \in DOMAIN jsonResponse.value
                         THEN jsonResponse.value.extractedTasks
                         ELSE << >>]

Priorities == {"TOP", "HIGH", "MEDIUM", "LOW"}

\* A fold that takes the priority of the task as it comes.
coercePriority_Raw(priority) == priority

\* ['TOP', 'HIGH', 'MEDIUM', 'LOW'].includes(t.priority) ? t.priority : 'MEDIUM'
coercePriority(priority) == IF priority \in Priorities THEN priority ELSE "MEDIUM"

\* App.handleSendChat: newTodos, one per task, with a fresh id each.
newTodosOfTasks(tasks, first, sel) ==
    [i \in 1..Len(tasks) |->
        [id |-> UuidPool[first + i], title |-> tasks[i].title,
         priority |-> coercePriority(tasks[i].priority),
         completed |-> FALSE, date |-> sel]]

\* App.handleSendChat: the reply is awaited and its tasks are put in front of
\* the todos by setData(prev => ...); updateData is not called.
handleSendChat ==
    \E provider \in ProviderOutcomes :
        LET res == chatWithAI(data, provider) IN
        /\ nextUuid + Len(res.tasks) <= MaxUuid
        /\ nextUuid' = nextUuid + Len(res.tasks)
        /\ data' = IF Len(res.tasks) > 0
                   THEN [data EXCEPT !.todos =
                            newTodosOfTasks(res.tasks, nextUuid, selectedDate) \o data.todos]
                   ELSE data
        /\ lastCall' = [fn |-> "chatWithAI", arg |-> provider, result |-> res]
        /\ Did("handleSendChat", "chat")
        /\ UNCHANGED <<selectedDate, stored, storeVars, syncVars, metadata, file,
                       cloud, retired, smm, vision>>

ChatNext ==
    \/ handleSendChat
    \/ toggleTodo /\ UNCHANGED <<storeVars, syncVars, envVars>>

ChatSpec == Init /\ [][ChatNext]_vars

\* The other App (oni): handleSendMessage takes t.priority as it is and calls
\* its updateData, which sets the state; the auto-save effect stores it.
newTodosOfTasksOni(tasks, first, sel) ==
    [i \in 1..Len(tasks) |->
        [id |-> UuidPool[first + i], title |-> tasks[i].title,
         priority |-> tasks[i].priority, completed |-> FALSE, date |-> sel]]

handleSendMessage ==
    \E provider \in ProviderOutcomes :
        LET res == chatWithAI(data, provider) IN
        /\ nextUuid + Len(res.tasks) <= MaxUuid
        /\ nextUuid' = nextUuid + Len(res.tasks)
        /\ IF Len(res.tasks) > 0
           THEN updateData([data EXCEPT !.todos =
                    newTodosOfTasksOni(res.tasks, nextUuid, selectedDate) \o data.todos])
           ELSE UNCHANGED <<data, stored>>
        /\ lastCall' = [fn |-> "chatWithAI", arg |-> provider, result |-> res]
        /\ Did("handleSendMessage", "chat")
        /\ UNCHANGED <<selectedDate, storeVars, syncVars, metadata, file, cloud, retired, smm, vision>>

OniChatNext ==
    \/ handleSendMessage
    \/ toggleTodo /\ UNCHANGED <<storeVars, syncVars, envVars>>

OniChatSpec == Init /\ [][OniChatNext]_vars

(***************************************************************************)
(* imageService.uploadFile, the rest of SocialMediaManager (upload, cloud   *)
(* push, fetch, the rendering of the queue), the journal and its list.     *)
(***************************************************************************)
\* What supabase.storage.upload answers: no error, or an error with a message
\* (given by whether it mentions row-level security) and a statusCode.
StorageAnswers ==
    {[ok |-> TRUE]}
    \cup {[ok |-> FALSE, message |-> msg, statusCode |-> code] :
             msg \in {{"row-level security"}, {}}, code \in {"403", "500", NoValue}}

PublicUrl == "https://storage/images/uid1/file.jpeg"

\* A classification by the message alone.
uploadFile_MessageOnly(answer) ==
    IF ~answer.ok
    THEN IF "row-level security" \in answer.message
         THEN [threw |-> TRUE, message |-> {"RLS_POLICY_ERROR"}]
         ELSE [threw |-> TRUE, message |-> answer.message]
    ELSE [threw |-> FALSE, url |-> PublicUrl]

\* uploadFile(file, userId): throws Error("RLS_POLICY_ERROR") or the storage
\* error itself, or returns the public URL.
uploadFile(answer) ==
    IF ~answer.ok
    THEN IF "row-level security" \in answer.message \/ answer.statusCode = "403"
         THEN [threw |-> TRUE, message |-> {"RLS_POLICY_ERROR"}]
         ELSE [threw |-> TRUE, message |-> answer.message]
    ELSE [threw |-> FALSE, url |-> PublicUrl]

\* addToQueue (catch): the text of the dialog.
uploadFailureDialog(e) ==
    IF e.message = {"RLS_POLICY_ERROR"} THEN "PERMISSION DENIED"
    ELSE "Failed to upload media. Post not queued."

\* new Date(x).getTime(), in days of June 2024.
getTime(x) ==
    CASE x \in {"2024-06-01"} -> 1
      [] x \in {"2024-06-02", "2024-06-02T09:00"} -> 2
      [] x \in {"2024-06-03", "2024-06-03T09:00"} -> 3
      [] OTHER -> 0

\* Array.prototype.sort with a comparator a - b on the keys: ascending and
\* stable, elements of equal key keep their order.
SortSeqBy(list, keys) ==
    LET rank(i) ==
            1 + Cardinality({j \in 1..Len(list) : keys[j] < keys[i]})
              + Cardinality({j \in 1..(i - 1) : keys[j] = keys[i]})
    IN [r \in 1..Len(list) |-> list[CHOOSE i \in 1..Len(list) : rank(i) = r]]

\* (a, b) => new Date(a.scheduledTime).getTime() - new Date(b.scheduledTime).getTime()
sortedQueue(queue) ==
    SortSeqBy(queue, [i \in 1..Len(queue) |-> getTime(queue[i].scheduledTime)])

\* The ids of the posts that are in the queue before a step and not after it.
leftQueue(before, after) ==
    {before[i].id : i \in 1..Len(before)} \ {after[i].id : i \in 1..Len(after)}

\* addToQueue with an attached file: the post is queued with the URL of the
\* uploaded file, or the upload throws and nothing is queued.
addToQueueUpload ==
    \E content \in {"post"}, scheduledTime \in {"2024-06-03T09:00", "2024-06-02T09:00"}, answer \in StorageAnswers :
        LET res == uploadFile(answer) IN
        /\ nextUuid < MaxUuid
        /\ IF res.threw
           THEN /\ lastCall' = [fn |-> "uploadFile", arg |-> answer, result |-> res,
                                dialog |-> uploadFailureDialog(res)]
                /\ Did("addToQueueFailed", "none")
                /\ UNCHANGED <<data, stored, nextUuid>>
           ELSE /\ lastCall' = [fn |-> "uploadFile", arg |-> answer, result |-> res,
                                dialog |-> "none"]
                /\ nextUuid' = nextUuid + 1
                /\ updateData(updateSocialQueueData(data, Append(queueOf(data),
                       [newPost(UuidPool[nextUuid + 1], content, scheduledTime)
                            EXCEPT !.image = res.url])))
                /\ Did("addToQueue", UuidPool[nextUuid + 1])
        /\ UNCHANGED <<selectedDate, storeVars, syncVars, metadata, file, cloud, retired, smm, vision>>

\* handleCloudSync: the queue, sorted, is sent to the endpoint; when it answers
\* ok every post of the sorted queue becomes PUBLISHED.
handleCloudSync ==
    \E ok \in BOOLEAN :
        LET sorted == sortedQueue(data.socialQueue) IN
        /\ Len(data.socialQueue) > 0
        /\ IF ok
           THEN /\ cloud' = sorted
                /\ updateData([data EXCEPT !.socialQueue =
                       [i \in 1..Len(sorted) |-> [sorted[i] EXCEPT !.status = "PUBLISHED"]]])
           ELSE UNCHANGED <<cloud, data, stored>>
        /\ Did(IF ok THEN "handleCloudSync" ELSE "handleCloudSyncFailed", "none")
        /\ UNCHANGED <<selectedDate, nextUuid, storeVars, syncVars, metadata, file,
                       retired, smm, vision, lastCall>>

\* handleFetchStatus: the schedule of the endpoint, when it is not empty,
\* replaces the queue.
handleFetchStatus ==
    \E ok \in BOOLEAN :
        /\ IF ok /\ Len(cloud) > 0
           THEN /\ updateData([data EXCEPT !.socialQueue = cloud])
                /\ retired' = retired \cup leftQueue(data.socialQueue, cloud)
           ELSE UNCHANGED <<data, stored, retired>>
        /\ Did(IF ok THEN "handleFetchStatus" ELSE "handleFetchStatusFailed", "none")
        /\ UNCHANGED <<selectedDate, nextUuid, storeVars, syncVars, metadata, file,
                       cloud, smm, vision, lastCall>>

\* The rendering of SocialMediaManager: queue.sort(...) sorts the array it was
\* given, which is data.socialQueue itself; nothing is stored.
renderQueue ==
    /\ Len(data.socialQueue) > 0
    /\ data' = [data EXCEPT !.socialQueue = sortedQueue(data.socialQueue)]
    /\ Did("renderQueue", "none")
    /\ UNCHANGED <<selectedDate, stored, nextUuid, storeVars, syncVars, envVars>>

\* The rendering of Journal: entries.sort(...) sorts the array it was given.
renderJournal ==
    /\ data' = [data EXCEPT !.journal =
                    \* (a, b) => new Date(b.date).getTime() - new Date(a.date).getTime()
                    SortSeqBy(data.journal, [i \in 1..Len(data.journal) |->
                                                0 - getTime(data.journal[i].date)])]
    /\ Did("renderJournal", "none")
    /\ UNCHANGED <<selectedDate, stored, nextUuid, storeVars, syncVars, envVars>>

\* App: data.journal.find(j => j.date === selectedDate), undefined when absent.
todaysJournal(d, sel) ==
    LET existing == {i \in 1..Len(d.journal) : d.journal[i].date = sel}
    IN IF existing = {} THEN Null
       ELSE d.journal[CHOOSE i \in existing : \A j \in existing : i <= j]

\* JournalModal.handleSave: the entry keeps the id of the entry it edits.
handleSave(existingEntry, date, content, uuid) ==
    [id |-> IF existingEntry # Null THEN existingEntry.id ELSE uuid,
     date |-> date, content |-> content]

\* A save that pushes the entry whatever the journal holds.
saveJournalEntryData_AlwaysPushes(d, entry) ==
    [d EXCEPT !.journal = Append(d.journal, entry)]

\* App.saveJournalEntry: findIndex by date, replace in place or push.
saveJournalEntryData(d, entry) ==
    LET existing == {i \in 1..Len(d.journal) : d.journal[i].date = entry.date}
        existingIndex == IF existing = {} THEN 0
                         ELSE CHOOSE i \in existing : \A j \in existing : i <= j
    IN [d EXCEPT !.journal =
           IF existingIndex > 0 THEN [d.journal EXCEPT ![existingIndex] = entry]
           ELSE Append(d.journal, entry)]

\* The journal modal of the selected date is saved.
saveJournalEntry ==
    \E content \in {"A good day", "Rain"} :
        LET existingEntry == todaysJournal(data, selectedDate)
            entry == handleSave(existingEntry, selectedDate, content,
                                UuidPool[nextUuid + 1])
        IN
        /\ existingEntry = Null => nextUuid < MaxUuid
        /\ nextUuid' = IF existingEntry # Null THEN nextUuid ELSE nextUuid + 1
        /\ updateData(saveJournalEntryData(data, entry))
        /\ Did("saveJournalEntry", entry.id)
        /\ UNCHANGED selectedDate

\* A schedule put at the endpoint by another writer: two posts with one id.
ForeignSchedule ==
    << [id |-> "x1", content |-> "a", image |-> "null", platforms |-> <<"telegram">>,
        scheduledTime |-> "2024-06-02T09:00", status |-> "QUEUED"],
       [id |-> "x1", content |-> "b", image |-> "null", platforms |-> <<"telegram">>,
        scheduledTime |-> "2024-06-03T09:00", status |-> "QUEUED"] >>

\* The dashboard of a logged-in user; the endpoint holds nothing or what
\* another writer put there.
ViewInit ==
    /\ AppInit
    /\ StoreInit
    /\ SyncIdle
    /\ metadata = [u \in {CurrentUserId} |-> "Ava"]
    /\ file = NoFile
    /\ cloud \in {<< >>, ForeignSchedule}
    /\ retired = {}
    /\ smm = SmmIdle
    /\ vision = VisionIdle
    /\ lastCall = [fn |-> "none"]

\* The social media manager with its uploads.
UploadNext ==
    \/ addToQueue /\ UNCHANGED <<storeVars, syncVars, envVars>>
    \/ addToQueueUpload
    \/ removeFromQueue /\ UNCHANGED <<storeVars, syncVars, envVars>>

UploadSpec == Init /\ [][UploadNext]_vars

ViewNext ==
    \/ addToQueue /\ UNCHANGED <<storeVars, syncVars, envVars>>
    \/ /\ removeFromQueue
       /\ retired' = retired \cup leftQueue(data.socialQueue, data'.socialQueue)
       /\ UNCHANGED <<storeVars, syncVars, metadata, file, cloud, smm, vision, lastCall>>
    \/ handleCloudSync
    \/ handleFetchStatus
    \/ renderQueue
    \/ renderJournal
    \/ saveJournalEntry /\ UNCHANGED <<storeVars, syncVars, envVars>>
    \/ setSelectedDate /\ UNCHANGED <<storeVars, syncVars, envVars>>

ViewSpec == ViewInit /\ [][ViewNext]_vars

(***************************************************************************)
(* The todo form: ActionModal.handleSubmit into App.handleAddItem.         *)
(***************************************************************************)
\* The form of a TODO is submitted: handleSubmit builds the item and
\* handleAddItem puts it, dated, in front of the todos.
handleSubmit ==
    \E title \in TitleInputs, priority \in PriorityInputs, date \in Dates \cup {NoValue} :
        /\ nextUuid < MaxUuid
        /\ nextUuid' = nextUuid + 1
        /\ updateData([data EXCEPT !.todos =
               <<datedTodo(formTodo(UuidPool[nextUuid + 1], title, priority, date),
                           selectedDate)>> \o data.todos])
        /\ lastCall' = [fn |-> "handleSubmit",
                        arg |-> [title |-> title, priority |-> priority, date |-> date]]
        /\ Did("handleAddItem", "TODO")
        /\ UNCHANGED <<selectedDate, storeVars, syncVars, metadata, file, cloud, retired, smm, vision>>

\* The dashboard of a new user: the document of DB_TEMPLATE, which has no todos.
TodoInit ==
    /\ data = appDataTemplate
    /\ selectedDate = Today
    /\ stored = appDataTemplate
    /\ nextUuid = 0
    /\ lastOp = [op |-> "none", id |-> "none"]
    /\ StoreInit
    /\ SyncIdle
    /\ EnvIdle

TodoNext ==
    \/ handleSubmit
    \/ toggleTodo /\ UNCHANGED <<storeVars, syncVars, envVars>>
    \/ setSelectedDate /\ UNCHANGED <<storeVars, syncVars, envVars>>

TodoSpec == TodoInit /\ [][TodoNext]_vars

(***************************************************************************)
(* SocialMediaManager.addToQueue as the asynchronous function it is: the   *)
(* handler runs to its await of uploadFile, other handlers run while the   *)
(* upload is in flight, and the rest of the handler runs when it settles,  *)
(* with the queue and the onUpdateQueue of the render that started it.     *)
(***************************************************************************)
\* The user fills the composer: text, platform, schedule and maybe a file.
compose ==
    \E f \in {NoFile, [name |-> "photo.png"]}, time \in {"2024-06-03T09:00"} :
        /\ smm.postContent = ""
        /\ smm' = [smm EXCEPT !.postContent = "post", !.fileToUpload = f,
                              !.selectedPlatforms = <<"telegram">>,
                              !.scheduledDate = time]
        /\ UNCHANGED <<appVars, storeVars, syncVars, metadata, file, cloud, retired,
                       vision, lastCall>>

\* addToQueue, the post it builds from the composer of its render.
composedPost(id, composer, imageUrl) ==
    [id |-> id, content |-> composer.postContent, image |-> imageUrl,
     platforms |-> composer.selectedPlatforms,
     scheduledTime |-> composer.scheduledDate, status |-> "QUEUED"]

\* addToQueue, after onUpdateQueue: the composer is emptied, syncStatus IDLE.
resetComposer(s) ==
    [s EXCEPT !.postContent = "", !.fileToUpload = NoFile,
              !.selectedPlatforms = << >>, !.scheduledDate = "",
              !.syncStatus = "IDLE"]

\* An addToQueue whose isUploading is reset at the end of the try block only.
afterUpload_NoFinally(s, call, threw) ==
    IF threw THEN [s EXCEPT !.calls = @ \ {call}]
    ELSE [resetComposer(s) EXCEPT !.isUploading = FALSE, !.calls = @ \ {call}]

\* addToQueue, the component after the await: try (reset), catch (nothing but
\* the dialog), finally (isUploading false).
afterUpload(s, call, threw) ==
    [(IF threw THEN s ELSE resetComposer(s))
        EXCEPT !.isUploading = FALSE, !.calls = @ \ {call}]

\* addToQueue up to its await.  Without a file there is no await and the
\* handler runs to its end; with a file the upload is in flight.
addToQueueStart ==
    /\ ~(smm.postContent = "" /\ smm.fileToUpload = NoFile)
    /\ Len(smm.selectedPlatforms) > 0
    /\ smm.scheduledDate # ""
    /\ ~smm.isUploading
    /\ nextUuid < MaxUuid
    /\ IF smm.fileToUpload = NoFile
       THEN /\ nextUuid' = nextUuid + 1
            /\ updateData(updateSocialQueueData(data, Append(queueOf(data),
                   composedPost(UuidPool[nextUuid + 1], smm, "null"))))
            /\ smm' = [resetComposer(smm) EXCEPT !.isUploading = FALSE]
            /\ Did("addToQueue", UuidPool[nextUuid + 1])
       ELSE /\ smm' = [smm EXCEPT !.isUploading = TRUE,
                          !.calls = @ \cup {[fn |-> "addToQueue", data |-> data,
                                             composer |-> smm]}]
            /\ Did("addToQueueStart", "none")
            /\ UNCHANGED <<data, stored, nextUuid>>
    /\ UNCHANGED <<selectedDate, storeVars, syncVars, metadata, file, cloud, retired,
                   vision, lastCall>>

\* The upload settles and addToQueue runs on: onUpdateQueue([...queue, newPost])
\* with the queue of the render that started it, given to App.updateSocialQueue
\* of that render: { ...data, socialQueue: newQueue }.
addToQueueSettle ==
    \E call \in smm.calls, answer \in StorageAnswers :
        LET res == uploadFile(answer) IN
        /\ call.fn = "addToQueue"
        /\ IF res.threw
           THEN /\ Did("addToQueueFailed", "none")
                /\ UNCHANGED <<data, stored, nextUuid>>
           ELSE /\ nextUuid' = nextUuid + 1
                /\ updateData(updateSocialQueueData(call.data,
                       Append(queueOf(call.data),
                              composedPost(UuidPool[nextUuid + 1], call.composer, res.url))))
                /\ Did("addToQueue", UuidPool[nextUuid + 1])
        /\ smm' = afterUpload(smm, call, res.threw)
        /\ UNCHANGED <<selectedDate, storeVars, syncVars, metadata, file, cloud, retired,
                       vision, lastCall>>

FlightNext ==
    \/ compose
    \/ addToQueueStart
    \/ addToQueueSettle
    \/ toggleTodo /\ UNCHANGED <<storeVars, syncVars, envVars>>
    \/ removeFromQueue /\ UNCHANGED <<storeVars, syncVars, envVars>>

FlightSpec == Init /\ [][FlightNext]_vars

(***************************************************************************)
(* SocialMediaManager.handleCloudSync and handleFetchStatus as the         *)
(* asynchronous functions they are, with the timers they set and the       *)
(* automation behind the endpoint that marks the posts it has sent.        *)
(***************************************************************************)
\* The button of handleCloudSync: disabled={queue.length === 0 || syncStatus === 'SYNCING'}.
pushDisabled(queue, s) == Len(queue) = 0 \/ s.syncStatus = "SYNCING"

\* handleCloudSync up to its await of fetch.
handleCloudSyncStart ==
    /\ ~pushDisabled(queueOf(data), smm)
    /\ smm.requests < MaxRequests
    /\ smm' = [smm EXCEPT !.syncStatus = "SYNCING", !.requests = @ + 1,
                  !.calls = @ \cup {[fn |-> "handleCloudSync", no |-> smm.requests + 1,
                                     data |-> data,
                                     sortedQueue |-> sortedQueue(queueOf(data))]}]
    /\ Did("handleCloudSyncStart", "none")
    /\ UNCHANGED <<data, selectedDate, stored, nextUuid, storeVars, syncVars,
                   metadata, file, cloud, retired, vision, lastCall>>

\* The endpoint answers the push: ok, and the schedule it holds is the payload,
\* every post of the sorted queue of the starting render becomes PUBLISHED and
\* a reset to IDLE is set for 3000 ms later; or not ok, and the status is ERROR.
handleCloudSyncSettle ==
    \E call \in smm.calls, ok \in BOOLEAN :
        /\ call.fn = "handleCloudSync"
        /\ IF ok
           THEN /\ cloud' = call.sortedQueue
                /\ updateData(updateSocialQueueData(call.data,
                       [i \in 1..Len(call.sortedQueue) |->
                           [call.sortedQueue[i] EXCEPT !.status = "PUBLISHED"]]))
                /\ smm' = [smm EXCEPT !.syncStatus = "SUCCESS", !.timers = @ + 1,
                              !.calls = @ \ {call}]
           ELSE /\ smm' = [smm EXCEPT !.syncStatus = "ERROR", !.calls = @ \ {call}]
                /\ UNCHANGED <<cloud, data, stored>>
        /\ Did(IF ok THEN "handleCloudSync" ELSE "handleCloudSyncFailed", "none")
        /\ UNCHANGED <<selectedDate, nextUuid, storeVars, syncVars, metadata, file,
                       retired, vision, lastCall>>

\* handleFetchStatus up to its await of fetch; its button is disabled while
\* syncStatus is SYNCING.
handleFetchStatusStart ==
    /\ smm.syncStatus # "SYNCING"
    /\ smm.requests < MaxRequests
    /\ smm' = [smm EXCEPT !.syncStatus = "SYNCING", !.requests = @ + 1,
                  !.calls = @ \cup {[fn |-> "handleFetchStatus",
                                     no |-> smm.requests + 1, data |-> data]}]
    /\ Did("handleFetchStatusStart", "none")
    /\ UNCHANGED <<data, selectedDate, stored, nextUuid, storeVars, syncVars,
                   metadata, file, cloud, retired, vision, lastCall>>

\* The endpoint answers the status check: a schedule that is not empty replaces
\* the queue (SUCCESS), an empty one does not (IDLE), and in both cases a reset
\* to IDLE is set for 3000 ms later; or not ok, and the status is ERROR.
handleFetchStatusSettle ==
    \E call \in smm.calls, ok \in BOOLEAN :
        /\ call.fn = "handleFetchStatus"
        /\ IF ok
           THEN /\ IF Len(cloud) > 0
                   THEN updateData(updateSocialQueueData(call.data, cloud))
                   ELSE UNCHANGED <<data, stored>>
                /\ smm' = [smm EXCEPT
                              !.syncStatus = IF Len(cloud) > 0 THEN "SUCCESS" ELSE "IDLE",
                              !.timers = @ + 1, !.calls = @ \ {call}]
           ELSE /\ smm' = [smm EXCEPT !.syncStatus = "ERROR", !.calls = @ \ {call}]
                /\ UNCHANGED <<data, stored>>
        /\ Did(IF ok THEN "handleFetchStatus" ELSE "handleFetchStatusFailed", "none")
        /\ UNCHANGED <<selectedDate, nextUuid, storeVars, syncVars, metadata, file,
                       cloud, retired, vision, lastCall>>

\* setTimeout(() => setSyncStatus('IDLE'), 3000) fires.
resetFires ==
    /\ smm.timers > 0
    /\ smm' = [smm EXCEPT !.syncStatus = "IDLE", !.timers = @ - 1]
    /\ UNCHANGED <<appVars, storeVars, syncVars, metadata, file, cloud, retired,
                   vision, lastCall>>

\* The automation behind the endpoint has sent a post of the schedule and
\* marks it SENT.
automationSends ==
    \E i \in 1..Len(cloud) :
        /\ cloud[i].status # "SENT"
        /\ cloud' = [cloud EXCEPT ![i].status = "SENT"]
        /\ UNCHANGED <<appVars, storeVars, syncVars, metadata, file, retired, smm,
                       vision, lastCall>>

PushNext ==
    \/ compose
    \/ addToQueueStart
    \/ addToQueueSettle
    \/ handleCloudSyncStart
    \/ handleCloudSyncSettle
    \/ handleFetchStatusStart
    \/ handleFetchStatusSettle
    \/ resetFires
    \/ automationSends

PushSpec == Init /\ [][PushNext]_vars

(***************************************************************************)
(* VisionBoard: the load effect with its migration of the images from      *)
(* localStorage to IndexedDB, and the re-ordering of the images.           *)
(***************************************************************************)
\* The outcomes of an IndexedDB call: indexedDB.open fails, the request on the
\* object store fails, or the request succeeds.
DbOutcomes == {"openFailed", "requestFailed", "ok"}

\* saveToDB(userId, images): initDB failing is caught inside (an alert) and the
\* call returns; the put failing rejects the promise returned; the put
\* succeeding stores the images.
saveToDB(idb, images, outcome) ==
    CASE outcome = "openFailed" -> [threw |-> FALSE, idb |-> idb]
      [] outcome = "requestFailed" -> [threw |-> TRUE, idb |-> idb]
      [] OTHER -> [threw |-> FALSE, idb |-> [images |-> images]]

\* loadFromDB(userId): initDB failing is caught inside and gives null; the get
\* failing rejects; the get succeeding gives the images stored, or null.
loadFromDB(idb, outcome) ==
    CASE outcome = "openFailed" -> [threw |-> FALSE, result |-> Null]
      [] outcome = "requestFailed" -> [threw |-> TRUE, result |-> Null]
      [] OTHER -> [threw |-> FALSE, result |-> idb]

\* loadImages up to the end of its await of loadFromDB: images found are
\* shown; without images the legacy copy is looked at next; a rejection ends
\* the effect.
loadImages ==
    \E outcome \in DbOutcomes :
        LET res == loadFromDB(vision.idb, outcome) IN
        /\ vision.pc = "mount"
        /\ vision' = IF res.threw THEN [vision EXCEPT !.pc = "done"]
                     ELSE IF res.result # Null
                          THEN [vision EXCEPT !.images = res.result.images, !.pc = "done"]
                          ELSE [vision EXCEPT !.pc = "legacy"]
        /\ lastCall' = [fn |-> "loadFromDB", arg |-> outcome, result |-> res]
        /\ UNCHANGED <<appVars, storeVars, syncVars, metadata, file, cloud, retired, smm>>

\* loadImages, the migration: the legacy copy is parsed and shown, saved to
\* IndexedDB and then removed from localStorage; a throw of JSON.parse or of
\* saveToDB goes to the catch, past the removal.
migrate ==
    \E outcome \in DbOutcomes :
        LET saved == saveToDB(vision.idb, vision.ls.json, outcome) IN
        /\ vision.pc = "legacy"
        /\ IF vision.ls = Null
           THEN /\ vision' = [vision EXCEPT !.pc = "done"]
                /\ lastCall' = [fn |-> "migrate", arg |-> "nothing"]
           ELSE IF "json" \notin DOMAIN vision.ls
           THEN /\ vision' = [vision EXCEPT !.pc = "done"]
                /\ lastCall' = [fn |-> "migrate", arg |-> "parseThrew"]
           ELSE /\ vision' = [vision EXCEPT
                                 !.images = vision.ls.json,
                                 !.idb = saved.idb,
                                 !.ls = IF saved.threw THEN vision.ls ELSE Null,
                                 !.pc = "done"]
                /\ lastCall' = [fn |-> "saveToDB", arg |-> outcome, result |-> saved]
        /\ UNCHANGED <<appVars, storeVars, syncVars, metadata, file, cloud, retired, smm>>

\* moveImage(index, direction) and saveImages: the images are shown in their
\* new order and saved to IndexedDB.
moveImage ==
    \E index \in 1..Len(vision.images), direction \in {"UP", "DOWN"},
       outcome \in DbOutcomes :
        LET \* [newImages[i], newImages[j]] = [newImages[j], newImages[i]]
            swap(images, i, j) ==
                [k \in 1..Len(images) |->
                    IF k = i THEN images[j] ELSE IF k = j THEN images[i] ELSE images[k]]
            newImages == IF direction = "UP" /\ index > 1
                         THEN swap(vision.images, index, index - 1)
                         ELSE IF direction = "DOWN" /\ index < Len(vision.images)
                         THEN swap(vision.images, index, index + 1)
                         ELSE vision.images
            saved == saveToDB(vision.idb, newImages, outcome)
        IN
        /\ vision.pc = "done"
        /\ vision' = [vision EXCEPT !.images = newImages, !.idb = saved.idb]
        /\ lastCall' = [fn |-> "moveImage", arg |-> <<index, direction, outcome>>,
                        result |-> saved]
        /\ UNCHANGED <<appVars, storeVars, syncVars, metadata, file, cloud, retired, smm>>

\* VisionBoard is mounted for a user whose browser holds images in
\* localStorage, in IndexedDB, in both or in neither.
VisionInit ==
    /\ AppInit
    /\ StoreInit
    /\ SyncIdle
    /\ metadata = [u \in {CurrentUserId} |-> "Ava"]
    /\ file = NoFile
    /\ cloud = << >>
    /\ retired = {}
    /\ smm = SmmIdle
    /\ lastCall = [fn |-> "none"]
    /\ vision \in
         {[images |-> << >>, ls |-> l, idb |-> d, pc |-> "mount"] :
             \* localStorage: nothing, the images of an older release, or text
             \* that JSON.parse throws on
             l \in {Null,
                    [json |-> << [id |-> 1, src |-> "a.jpg"], [id |-> 2, src |-> "b.jpg"] >>],
                    [text |-> "[{"]},
             \* IndexedDB: nothing, or the images
             d \in {Null,
                    [images |-> << [id |-> 3, src |-> "c.jpg"],
                                   [id |-> 4, src |-> "d.jpg"] >>]}}

VisionNext ==
    \/ loadImages
    \/ migrate
    \/ moveImage

VisionSpec == VisionInit /\ [][VisionNext]_vars

(***************************************************************************)
(* Every handler of App that changes the document, over the documents App  *)
(* reads from localStorage: the template, or a document stored without a   *)
(* socialQueue, which App tolerates (data.socialQueue || []).              *)
(***************************************************************************)
SchemaInit ==
    /\ data \in {INITIAL_DATA_TEMPLATE, Remove(INITIAL_DATA_TEMPLATE, "socialQueue")}
    /\ stored = data
    /\ selectedDate = Today
    /\ nextUuid = 0
    /\ lastOp = [op |-> "none", id |-> "none"]
    /\ StoreInit
    /\ SyncIdle
    /\ EnvIdle

\* One element is created in a run (an item, a journal entry or a post); the
\* toggles and deletes run on it and on the elements of the template.
SchemaNext ==
    \/ nextUuid = 0 /\ handleAddItem(ItemTypes) /\ UNCHANGED <<storeVars, syncVars, envVars>>
    \/ nextUuid = 0 /\ saveJournalEntry /\ UNCHANGED <<storeVars, syncVars, envVars>>
    \/ nextUuid = 0 /\ addToQueue /\ UNCHANGED <<storeVars, syncVars, envVars>>
    \/ removeFromQueue /\ UNCHANGED <<storeVars, syncVars, envVars>>
    \/ toggleTodo /\ UNCHANGED <<storeVars, syncVars, envVars>>
    \/ toggleHabit /\ UNCHANGED <<storeVars, syncVars, envVars>>
    \/ toggleNonNegotiable /\ UNCHANGED <<storeVars, syncVars, envVars>>
    \/ toggleMilestone /\ UNCHANGED <<storeVars, syncVars, envVars>>
    \/ deleteExpense /\ UNCHANGED <<storeVars, syncVars, envVars>>
    \/ deleteMilestone /\ UNCHANGED <<storeVars, syncVars, envVars>>

SchemaSpec == SchemaInit /\ [][SchemaNext]_vars

(***************************************************************************)
(* Properties of the handlers.                                             *)
(***************************************************************************)
IdsOf(list) == {list[i].id : i \in 1..Len(list)}

\* Every field of the document but f is the same in d and e.
SameBut(d, e, f) ==
    /\ DOMAIN e = DOMAIN d
    /\ \A g \in (DOMAIN d) \ {f} : e[g] = d[g]

\* res is orig without exactly one element, the one with this id, the others in
\* their order.
RemovedOne(orig, res, id) ==
    \E k \in 1..Len(orig) :
        /\ orig[k].id = id
        /\ Len(res) = Len(orig) - 1
        /\ \A i \in 1..Len(res) : res[i] = IF i < k THEN orig[i] ELSE orig[i + 1]

NoDuplicates(list) ==
    \A i, j \in 1..Len(list) : list[i] = list[j] => i = j

\* C5: for every todo id of the document, toggleTodo flips the completed flag of
\* the todo with that id and nothing else (no other todo, field, length or
\* order), and a second toggleTodo with the same id restores the todos list.
C5_ToggleTodoFlipsOnlyCompleted ==
    \A id \in IdsOf(data.todos) :
        LET d2 == toggleTodoData(data, id) IN
        /\ SameBut(data, d2, "todos")
        /\ Len(d2.todos) = Len(data.todos)
        /\ \A i \in 1..Len(data.todos) :
              IF data.todos[i].id = id
              THEN /\ d2.todos[i].completed = ~data.todos[i].completed
                   /\ \A g \in {"id", "title", "priority", "date"} :
                         d2.todos[i][g] = data.todos[i][g]
                   /\ DOMAIN d2.todos[i] = DOMAIN data.todos[i]
              ELSE d2.todos[i] = data.todos[i]
        /\ toggleTodoData(d2, id).todos = data.todos

\* A todo was toggled to completed in a list that holds another todo.
C5_Witness ==
    /\ lastOp.op = "toggleTodo"
    /\ Len(data.todos) >= 2
    /\ \E i \in 1..Len(data.todos) :
          data.todos[i].id = lastOp.id /\ data.todos[i].completed
    /\ \E i \in 1..Len(data.todos) : data.todos[i].id # lastOp.id

C8_UnknownIdIsNoOp ==
    LET AllIds == IdsOf(data.todos) \cup IdsOf(data.habits) \cup IdsOf(data.milestones)
                    \cup IdsOf(data.expenses) \cup {UnknownId}
    IN \A id \in AllIds :
        /\ id \notin IdsOf(data.todos) => toggleTodoData(data, id) = data
        /\ id \notin IdsOf(data.habits) => toggleHabitData(data, selectedDate, id) = data
        /\ id \notin IdsOf(data.milestones) => toggleMilestoneData(data, id) = data
        /\ id \notin IdsOf(data.expenses) => deleteExpenseData(data, id) = data
        /\ id \notin IdsOf(data.milestones) => deleteMilestoneData(data, id) = data

\* deleteExpense ran with an unknown id on a document that holds expenses.
C8_Witness ==
    /\ lastOp.op = "deleteExpense"
    /\ lastOp.id = UnknownId
    /\ Len(data.expenses) >= 1
    /\ Len(data.todos) >= 1 /\ Len(data.habits) >= 1 /\ Len(data.milestones) >= 1

\* C6: toggleNonNegotiable(id) appends id to the selected date's list when it
\* is absent and removes it when present, leaves the list of every other date
\* as it was, and no date's list ever holds an id twice.
C6_ToggleNonNegotiableSet ==
    /\ \A date \in DOMAIN data.nonNegotiableLogs : NoDuplicates(data.nonNegotiableLogs[date])
    /\ \A id \in IdInputs(data.nonNegotiables) :
          LET before == currentLogs(data, selectedDate)
              d2 == toggleNonNegotiableData(data, selectedDate, id)
              after == d2.nonNegotiableLogs[selectedDate]
          IN /\ SameBut(data, d2, "nonNegotiableLogs")
             /\ \A date \in Dates \ {selectedDate} : currentLogs(d2, date) = currentLogs(data, date)
             /\ (DOMAIN d2.nonNegotiableLogs) \ {selectedDate}
                    = (DOMAIN data.nonNegotiableLogs) \ {selectedDate}
             /\ IF \E i \in 1..Len(before) : before[i] = id
                THEN \E k \in 1..Len(before) :
                        /\ before[k] = id
                        /\ Len(after) = Len(before) - 1
                        /\ \A i \in 1..Len(after) :
                              after[i] = IF i < k THEN before[i] ELSE before[i + 1]
                ELSE after = before \o <<id>>

\* A toggle ran while both dates have a list and one of them holds two ids.
C6_Witness ==
    /\ lastOp.op = "toggleNonNegotiable"
    /\ DOMAIN data.nonNegotiableLogs = Dates
    /\ \E date \in Dates : Len(data.nonNegotiableLogs[date]) >= 2
    /\ \E date \in Dates : Len(data.nonNegotiableLogs[date]) = 0

\* C9: a toggleNonNegotiable step whose id is not the id of any element of
\* nonNegotiables leaves the document, nonNegotiableLogs included, unchanged.
C9_UnknownNonNegotiableIsNoOp ==
    [][(lastOp'.op = "toggleNonNegotiable" /\ lastOp'.id \notin IdsOf(data.nonNegotiables))
          => data' = data]_vars

(***************************************************************************)
(* Properties of the persistence manager, in a session whose identity      *)
(* stays active.                                                           *)
(***************************************************************************)
StatusOf(error) == IF error THEN "ERROR" ELSE "SAVED"

C3_FailureKeepsDocumentNoRetry ==
    [][ /\ (lastEvent'.type = "answer" /\ lastEvent'.error)
              => /\ syncStatus' = "ERROR"
                 /\ data' = data
                 /\ issued' = issued
                 /\ timer' = timer
                 /\ inflight' \subseteq inflight
                 /\ remote' = remote
        /\ issued' # issued
              => /\ lastEvent'.type = "fire"
                 /\ Len(issued') = Len(issued) + 1
                 /\ \A i \in 1..Len(issued) : issued[i].rev < issued'[Len(issued')].rev ]_vars

\* The only upsert failed: status ERROR, nothing in flight, no timer armed, the
\* document is the mutated one and the store has no row.
C3_Witness ==
    /\ lastEvent.type = "answer"
    /\ lastEvent.error
    /\ syncStatus = "ERROR"
    /\ inflight = {}
    /\ timer = -1
    /\ Len(issued) = 1
    /\ data = history[rev]
    /\ data # INITIAL_DATA_TEMPLATE
    /\ remote = {}

\* C4: whichever upsert the store answers, the status is that answer's
\* outcome, also when an upsert issued later was answered before it.
C4_LaterAnswerSetsStatus ==
    lastEvent.type = "answer" => syncStatus = StatusOf(lastEvent.error)

\* The first upsert failed after the second, issued later, had succeeded: the
\* status is ERROR although the newest document is stored.
C4_Witness ==
    /\ lastEvent.type = "answer"
    /\ lastEvent.seq = 1
    /\ lastEvent.error
    /\ newestAnswer.seq = 2
    /\ ~newestAnswer.error
    /\ syncStatus = "ERROR"
    /\ remote = {upsertRow(CurrentUserId, data)}
    /\ inflight = {}

C11_NewUserFirstLoad ==
    authUser # NoUser =>
        LET doc == getUserData(authUser, selectSingle(remote, authUser, FALSE)) IN
        /\ doc # Null
        /\ doc.user.name = metadata[authUser]
        /\ doc.todos = << >>
        /\ doc.habits = appDataTemplate.habits
        /\ doc.nonNegotiables = appDataTemplate.nonNegotiables
        /\ doc.milestones = appDataTemplate.milestones
        /\ doc.goals = appDataTemplate.goals
        /\ (lastCall.fn = "getUserData" /\ ~lastCall.fault) => lastCall.result = doc

\* Bo signed up without a session, logged in later and loaded: no row, and the
\* document carries the name Bo.
C11_Witness ==
    /\ authUser # NoUser
    /\ lastCall.fn = "getUserData"
    /\ ~lastCall.fault
    /\ \A r \in remote : r.id # authUser
    /\ metadata[authUser] = "Bo"
    /\ lastCall.result.user.name = "Bo"
    /\ lastCall.result.todos = << >>

(***************************************************************************)
(* Properties of the backup file.                                          *)
(***************************************************************************)
HasField(f, field) ==
    f.kind = "json" /\ f.value # Null /\ field \in DOMAIN f.value

\* C12: an import of a file that is no JSON, or whose value has no user or no
\* goals, is rejected and leaves the table as it was; the table changes only for
\* a JSON file with both, and then the identity's row holds the file's value,
\* whole, and every other row is as before.
C12_ImportValidation ==
    lastCall.fn = "importDatabase" =>
        LET f == lastCall.arg
            invalid == ~HasField(f, "user") \/ ~HasField(f, "goals")
        IN
        /\ invalid => (lastCall.result = "rejected" /\ remote = lastCall.original)
        /\ remote # lastCall.original =>
              /\ ~invalid
              /\ lastCall.result = "resolved"
              /\ \E r \in remote : r.id = authUser /\ r.content = f.value
              /\ \A r \in remote : r.id = authUser => r.content = f.value
              /\ {r \in remote : r.id # authUser} =
                 {r \in lastCall.original : r.id # authUser}

\* A file without goals was rejected, and before that a complete file replaced
\* the document.
C12_Witness ==
    /\ lastCall.fn = "importDatabase"
    /\ lastCall.result = "rejected"
    /\ ~lastCall.readError
    /\ HasField(lastCall.arg, "user")
    /\ ~HasField(lastCall.arg, "goals")
    /\ remote = {upsertRow(CurrentUserId, ImportDocument)}

\* C13: when the document stored for the signed-in identity is exported and
\* the file is imported at once, the table is as it was before.
C13_ExportImportRoundTrip ==
    (/\ lastCall.fn = "importDatabase"
     /\ lastCall.roundTrip
     /\ authUser # NoUser
     /\ \E r \in lastCall.original : r.id = authUser /\ r.content # Null)
    => remote = lastCall.original

\* The complete document was stored, exported, and the import of the file
\* resolved.
C13_Witness ==
    /\ lastCall.fn = "importDatabase"
    /\ lastCall.roundTrip
    /\ lastCall.result = "resolved"
    /\ authUser # NoUser
    /\ lastCall.original = {upsertRow(CurrentUserId, OlderDocument)}
    /\ remote = lastCall.original
    /\ file = stringify(OlderDocument)

(***************************************************************************)
(* Properties of the chat.                                                 *)
(***************************************************************************)
CategoryMessages ==
    {ConfigurationMessage, ConnectionMessage, RateLimitMessage, UnexpectedMessage}

\* The provider call or the parsing of its response failed.
ProviderFailed(provider) ==
    \/ provider.threw
    \/ provider.text.kind = "garbage"
    \/ provider.text.kind = "json" /\ provider.text.value = Null

\* C14: chatWithAI always returns a result with a text and a list of tasks;
\* when the provider call or the parsing failed the text is one of the category
\* messages, none of them empty, and there are no tasks; otherwise the text is
\* not empty and the tasks are those extracted, none when there were none.
C14_ChatNeverThrows ==
    lastCall.fn = "chatWithAI" =>
        LET res == lastCall.result
            provider == lastCall.arg
        IN
        /\ DOMAIN res = {"text", "tasks"}
        /\ res.text # ""
        /\ res.tasks \in Seq(TaskInputs \cup {[title |-> "Learn sql", priority |-> "LOW"]})
        /\ "" \notin CategoryMessages
        /\ ProviderFailed(provider) => (res.text \in CategoryMessages /\ res.tasks = << >>)
        /\ ~ProviderFailed(provider) =>
              res.tasks = IF provider.text.kind = "json"
                             /\ "extractedTasks" \in DOMAIN provider.text.value
                          THEN provider.text.value.extractedTasks
                          ELSE << >>

\* The provider failed with an error of no category and the result carries the
\* message for unexpected errors.
C14_Witness ==
    /\ lastCall.fn = "chatWithAI"
    /\ lastCall.arg.threw
    /\ lastCall.arg.error = {}
    /\ lastCall.result = [text |-> UnexpectedMessage, tasks |-> << >>]

\* C16: every todo of the document has a priority of the enum, whatever the
\* extracted tasks carried.
C16_TodoPriorityInEnum ==
    \A i \in 1..Len(data.todos) : data.todos[i].priority \in Priorities

\* C20: after a chat reply whose tasks were added to the todos, the stored
\* copy holds those todos as well.
C20_FoldIsPersisted ==
    lastOp.op = "handleSendChat" => stored.todos = data.todos

(***************************************************************************)
(* Properties of the uploads, of the views and of the ids.                 *)
(***************************************************************************)
\* The storage refused the upload for its access policy: the message mentions
\* row-level security or the status code is 403.
PolicyRejection(answer) ==
    ~answer.ok /\ ("row-level security" \in answer.message \/ answer.statusCode = "403")

\* C15: uploadFile raises RLS_POLICY_ERROR exactly for the rejections by the
\* access policy, raises the storage error itself for every other failure and
\* returns a URL exactly when the upload succeeded; the caller shows the
\* permission dialog for the first kind only.
C15_UploadFailureClassified ==
    lastCall.fn = "uploadFile" =>
        LET answer == lastCall.arg
            res == lastCall.result
        IN
        /\ PolicyRejection(answer) => (res.threw /\ res.message = {"RLS_POLICY_ERROR"})
        /\ (~answer.ok /\ ~PolicyRejection(answer)) =>
              (res.threw /\ res.message = answer.message
                         /\ res.message # {"RLS_POLICY_ERROR"})
        /\ answer.ok <=> ~res.threw
        /\ ~res.threw => res.url = PublicUrl
        /\ (lastCall.dialog = "PERMISSION DENIED") <=> PolicyRejection(answer)

\* The storage answered 403 with a message that does not mention row-level
\* security: the policy error was raised and the permission dialog shown.
C15_Witness ==
    /\ lastCall.fn = "uploadFile"
    /\ ~lastCall.arg.ok
    /\ lastCall.arg.statusCode = "403"
    /\ lastCall.arg.message = {}
    /\ lastCall.result = [threw |-> TRUE, message |-> {"RLS_POLICY_ERROR"}]
    /\ lastCall.dialog = "PERMISSION DENIED"

\* C17: a rendering of the queue or of the journal list leaves the document as
\* it was.
C17_RenderLeavesDocument ==
    [][lastOp'.op \in {"renderQueue", "renderJournal"} => data' = data]_vars

IdsUnique(list) ==
    \A i, j \in 1..Len(list) : list[i].id = list[j].id => i = j

\* C19: the ids are unique within each list of the document, and no post of the
\* queue carries the id of a post that left the queue before.
C19_IdsUniqueNeverReused ==
    /\ \A f \in {"nonNegotiables", "milestones", "socialQueue", "todos", "habits",
                 "journal", "expenses"} : IdsUnique(data[f])
    /\ IdsOf(data.socialQueue) \cap retired = {}

(***************************************************************************)
(* Properties of the todo form.                                            *)
(***************************************************************************)
\* C18: when a todo is added to a document without todos and toggled next,
\* the todos are that one todo, completed, with the title of the form and the
\* priority and the date picked in the form.
C18_AddThenToggleTodo ==
    [][(/\ lastOp.op = "handleAddItem"
        /\ lastCall.fn = "handleSubmit"
        /\ Len(data.todos) = 1
        /\ lastOp'.op = "toggleTodo"
        /\ lastOp'.id = data.todos[1].id)
       => /\ Len(data'.todos) = 1
          /\ data'.todos[1].completed
          /\ data'.todos[1].title = lastCall.arg.title
          /\ lastCall.arg.priority # NoValue =>
                data'.todos[1].priority = lastCall.arg.priority
          /\ lastCall.arg.date # NoValue =>
                data'.todos[1].date = lastCall.arg.date]_vars

(***************************************************************************)
(* Properties of the shape of the document.                                *)
(***************************************************************************)
\* C21: no handler changes the set of top-level fields of the document.
C21_MutationsSchemaClosed ==
    [][DOMAIN data' = DOMAIN data]_vars

(***************************************************************************)
(* Properties of the journal.                                              *)
(***************************************************************************)
OnePerDate(journal) ==
    \A i, j \in 1..Len(journal) : journal[i].date = journal[j].date => i = j

\* C22: a save of the journal entry of a date that has an entry replaces that
\* entry at its position, with its id, and keeps the length; a save for a date
\* without entry appends the entry at the end; a journal with at most one
\* entry per date keeps at most one entry per date.
C22_SaveJournalEntryReplacesOrAppends ==
    [][lastOp'.op = "saveJournalEntry" =>
         LET old == data.journal
             new == data'.journal
             at == {i \in 1..Len(old) : old[i].date = selectedDate}
         IN /\ at # {} =>
                 /\ Len(new) = Len(old)
                 /\ \A i \in 1..Len(old) :
                       IF i \in at
                       THEN new[i].date = selectedDate /\ new[i].id = old[i].id
                       ELSE new[i] = old[i]
            /\ at = {} =>
                 /\ Len(new) = Len(old) + 1
                 /\ SubSeq(new, 1, Len(old)) = old
                 /\ new[Len(new)].date = selectedDate
            /\ OnePerDate(old) => OnePerDate(new)]_vars

\* The first of two entries was saved again: the second one was appended
\* before, and the last save carried the id of the first.
C22_Witness ==
    /\ lastOp.op = "saveJournalEntry"
    /\ Len(data.journal) = 2
    /\ lastOp.id = data.journal[1].id
    /\ data.journal[1].date = selectedDate
    /\ data.journal[1].content = "Rain"

(***************************************************************************)
(* Properties of the read.                                                 *)
(***************************************************************************)
\* C23: getUserData returns null without an identity and on every read error
\* other than PGRST116; it returns the template (with the identity's name) only
\* to an identity whose read found no row (PGRST116) or a row without content,
\* and the content of the row otherwise.
C23_TemplateOnlyForMissingRow ==
    lastCall.fn = "getUserData" =>
        LET rows == {r \in remote : r.id = lastCall.arg}
            noContent == rows = {} \/ \A r \in rows : r.content = Null
        IN /\ (lastCall.arg = NoUser \/ lastCall.fault) => lastCall.result = Null
           /\ lastCall.result # Null =>
                 IF noContent THEN lastCall.result = newUserData(lastCall.arg)
                 ELSE /\ \E r \in rows : lastCall.result = r.content
                      /\ lastCall.result # newUserData(lastCall.arg)
           /\ (lastCall.arg # NoUser /\ ~lastCall.fault) => lastCall.result # Null

\* The read of a signed-in identity failed while its row holds a document.
C23_Witness ==
    /\ lastCall.fn = "getUserData"
    /\ lastCall.arg = CurrentUserId
    /\ lastCall.fault
    /\ \E r \in remote : r.id = CurrentUserId /\ r.content # Null
    /\ lastCall.result = Null

(***************************************************************************)
(* Properties of the asynchronous addToQueue.                              *)
(***************************************************************************)
UploadsInFlight == {call \in smm.calls : call.fn = "addToQueue"}

\* C24: when the upload of an addToQueue with a file settles, isUploading
\* is false; if it returned a URL the queue gains one post, at the end, whose
\* image is that URL; if it threw, the document and the composer fields are as
\* they were.  No other step puts a post with an image in the queue.
C24_UploadThenAppend ==
    [][/\ (UploadsInFlight # {} /\ smm'.calls # smm.calls) =>
            /\ ~smm'.isUploading
            /\ IF lastOp'.op = "addToQueue"
               THEN /\ Len(data'.socialQueue) >= 1
                    /\ LET post == data'.socialQueue[Len(data'.socialQueue)] IN
                          /\ post.image = PublicUrl
                          /\ post.id \notin IdsOf(queueOf(data))
                          /\ \E call \in UploadsInFlight :
                                data'.socialQueue = Append(queueOf(call.data), post)
               ELSE /\ lastOp'.op = "addToQueueFailed"
                    /\ data' = data
                    /\ stored' = stored
                    /\ smm'.postContent = smm.postContent
                    /\ smm'.fileToUpload = smm.fileToUpload
                    /\ smm'.selectedPlatforms = smm.selectedPlatforms
                    /\ smm'.scheduledDate = smm.scheduledDate
       /\ (\E i \in 1..Len(queueOf(data')) :
              /\ data'.socialQueue[i].id \notin IdsOf(queueOf(data))
              /\ data'.socialQueue[i].image # "null")
           => (UploadsInFlight # {} /\ smm'.calls # smm.calls)
       /\ (UploadsInFlight # {} /\ smm'.calls = smm.calls) =>
              (smm.isUploading /\ smm'.isUploading)]_vars

\* An upload failed while the queue held a post and the composer its fields.
C24_Witness ==
    /\ lastOp.op = "addToQueueFailed"
    /\ ~smm.isUploading
    /\ smm.calls = {}
    /\ smm.postContent = "post"
    /\ smm.fileToUpload # NoFile
    /\ Len(queueOf(data)) = 1
    /\ data.socialQueue[1].image = PublicUrl

\* C25: the post of an addToQueue whose upload settles is folded into the
\* document as it is then: every other field, and every post of the queue, is
\* what it was just before the upload settled.
C25_FoldIntoCurrentDocument ==
    [][(UploadsInFlight # {} /\ lastOp'.op = "addToQueue") =>
          /\ \A f \in DOMAIN data \ {"socialQueue"} : data'[f] = data[f]
          /\ SubSeq(data'.socialQueue, 1, Len(data'.socialQueue) - 1) = queueOf(data)]_vars

(***************************************************************************)
(* Properties of the non-negotiable logs.                                  *)
(***************************************************************************)
\* C26: toggling a non-negotiable twice for the selected date gives back the
\* nonNegotiableLogs of before: the same dates as keys, the same list at each.
C26_DoubleToggleRestoresLogs ==
    \A id \in IdsOf(data.nonNegotiables) :
        LET once == toggleNonNegotiableData(data, selectedDate, id)
            twice == toggleNonNegotiableData(once, selectedDate, id)
        IN /\ DOMAIN twice.nonNegotiableLogs = DOMAIN data.nonNegotiableLogs
           /\ twice.nonNegotiableLogs = data.nonNegotiableLogs

(***************************************************************************)
(* Properties of the cloud sync of the social queue.                       *)
(***************************************************************************)
StatusRank(status) ==
    CASE status = "QUEUED" -> 1
      [] status = "PUBLISHED" -> 2
      [] status = "SENT" -> 3

\* C27: the status of a post of the queue only moves forward in the order
\* QUEUED, PUBLISHED, SENT, whatever step the manager takes, and a push that
\* failed changes no status.
C27_StatusMovesForward ==
    [][/\ \A i \in 1..Len(queueOf(data)), j \in 1..Len(queueOf(data')) :
             data.socialQueue[i].id = data'.socialQueue[j].id =>
                 StatusRank(data'.socialQueue[j].status)
                     >= StatusRank(data.socialQueue[i].status)
       /\ lastOp'.op = "handleCloudSyncFailed" => data' = data]_vars

SyncCalls ==
    {call \in smm.calls : call.fn \in {"handleCloudSync", "handleFetchStatus"}}

\* C28: while a push or a status check is in flight syncStatus is SYNCING and
\* the push button is disabled, and at most one of them is in flight.
C28_SyncingWhileInFlight ==
    SyncCalls # {} =>
        /\ smm.syncStatus = "SYNCING"
        /\ pushDisabled(queueOf(data), smm)
        /\ Cardinality(SyncCalls) <= 1

(***************************************************************************)
(* Properties of the vision board.                                         *)
(***************************************************************************)
\* C29: the migration removes the copy of localStorage only in a step after
\* which IndexedDB holds the images of that copy, and images that were in
\* localStorage are afterwards in localStorage or in IndexedDB.
C29_LegacyRemovedOnlyAfterStored ==
    [][/\ ("json" \in DOMAIN vision.ls /\ vision'.ls = Null) =>
              vision'.idb = [images |-> vision.ls.json]
       /\ "json" \in DOMAIN vision.ls =>
              ("json" \in DOMAIN vision'.ls \/ vision'.idb # Null)]_vars

(***************************************************************************)
(* Properties of the import.                                               *)
(***************************************************************************)
\* C30: an importDatabase that resolved has replaced the document: the row of
\* the identity holds the value of the file.
C30_ResolvedImportHasWritten ==
    (lastCall.fn = "importDatabase" /\ lastCall.result = "resolved") =>
        /\ authUser # NoUser
        /\ \E r \in remote : r.id = authUser /\ r.content = lastCall.arg.value

====
